---- MODULE Spec2Model ----
(***************************************************************************)
(* A model of scripts/sync_blog.py: one sync run fetches the blog's RSS    *)
(* feed, parses it, merges the posts of one category into data/posts.json, *)
(* and regenerates index.html and sitemap.xml.                             *)
(*                                                                         *)
(* A Python str is modelled as a sequence of characters, each character a  *)
(* one-character string; a character outside ASCII is written as its code  *)
(* point ("U+C694"), which is still one element of the sequence, so that   *)
(* len(), startswith(), replace() and the ordering of str count and        *)
(* compare code points as Python does.                                     *)
(***************************************************************************)
EXTENDS Integers, Sequences, FiniteSets, TLC

VARIABLES
    dataFile,     \* data/posts.json: whether it exists, and the JSON object it holds
    htmlFile,     \* index.html: whether it exists, its cards and its JSON-LD entries
    sitemapFile,  \* sitemap.xml: whether it exists, and its lastmod
    upstream,     \* what the feed URL answers now: a status and a body
    seen,         \* whether upstream is still what the last run fetched
    pc,           \* "idle", or "fetching" while requests.get() blocks
    run,          \* the last run that ended: how far it got, what it printed
    title,        \* the argument of a clean_title call
    display       \* what that call returned (None before the call)

vars == <<dataFile, htmlFile, sitemapFile, upstream, seen, pc, run, title, display>>

\* Python's None, where the code expects a str.
None == <<"None">>

\* item.find(tag) returned None: the element is not in the item.
Missing == <<"Missing">>

------------------------------------------------------------------------------
\* str operations

\* the code point of each character the model's texts are made of
CodePoint ==
       " " :> 32 @@ "&" :> 38 @@ "+" :> 43 @@ "," :> 44 @@ "-" :> 45 @@ "." :> 46
    @@ "/" :> 47 @@ "0" :> 48 @@ "1" :> 49 @@ "2" :> 50 @@ "3" :> 51 @@ "4" :> 52
    @@ "5" :> 53 @@ "6" :> 54 @@ "7" :> 55 @@ "8" :> 56 @@ "9" :> 57 @@ ":" :> 58
    @@ "=" :> 61 @@ "?" :> 63 @@ "A" :> 65 @@ "C" :> 67 @@ "D" :> 68 @@ "F" :> 70
    @@ "I" :> 73 @@ "J" :> 74 @@ "L" :> 76 @@ "M" :> 77 @@ "N" :> 78 @@ "O" :> 79
    @@ "P" :> 80 @@ "R" :> 82 @@ "S" :> 83 @@ "T" :> 84 @@ "W" :> 87 @@ "a" :> 97
    @@ "b" :> 98 @@ "c" :> 99 @@ "d" :> 100 @@ "e" :> 101 @@ "f" :> 102 @@ "g" :> 103
    @@ "h" :> 104 @@ "i" :> 105 @@ "j" :> 106 @@ "k" :> 107 @@ "l" :> 108 @@ "m" :> 109
    @@ "n" :> 110 @@ "o" :> 111 @@ "p" :> 112 @@ "r" :> 114 @@ "s" :> 115 @@ "t" :> 116
    @@ "u" :> 117 @@ "v" :> 118 @@ "y" :> 121 @@ "|" :> 124 @@ "U+26A1" :> 9889 @@ "U+AC00" :> 44032
    @@ "U+ACFC" :> 44284 @@ "U+AD6C" :> 44396 @@ "U+AD6D" :> 44397 @@ "U+AE00" :> 44544 @@ "U+AE30" :> 44592 @@ "U+B0B4" :> 45236
    @@ "U+B178" :> 45432 @@ "U+B4DC" :> 46300 @@ "U+B80C" :> 47116 @@ "U+B9AC" :> 47532 @@ "U+BA54" :> 47700 @@ "U+BAA8" :> 47784
    @@ "U+BD84" :> 48516 @@ "U+C0AC" :> 49324 @@ "U+C11D" :> 49437 @@ "U+C218" :> 49688 @@ "U+C2E0" :> 49888 @@ "U+C2E4" :> 49892
    @@ "U+C2EC" :> 49900 @@ "U+C57D" :> 50557 @@ "U+C5C5" :> 50629 @@ "U+C62C" :> 50732 @@ "U+C694" :> 50836 @@ "U+C6A9" :> 50857
    @@ "U+C6D0" :> 50896 @@ "U+C774" :> 51060 @@ "U+C778" :> 51064 @@ "U+C815" :> 51221 @@ "U+C81C" :> 51228 @@ "U+CD5C" :> 52572
    @@ "U+D035" :> 53301 @@ "U+D2B8" :> 53944 @@ "U+D301" :> 54017 @@ "U+D575" :> 54645 @@ "U+D65C" :> 54876 @@ "U+D6C4" :> 54980
    @@ "U+FE0F" :> 65039

\* ord(c)
Ord(c) == CodePoint[c]

\* s.startswith(p)
StartsWith(s, p) ==
    /\ Len(p) <= Len(s)
    /\ SubSeq(s, 1, Len(p)) = p

\* s[n:]
Drop(s, n) == SubSeq(s, n + 1, Len(s))

\* s.find(sub, start): the least index >= start (1-based) where sub occurs, or 0
Find(s, sub, start) ==
    LET hits == {i \in start..(Len(s) - Len(sub) + 1) : SubSeq(s, i, i + Len(sub) - 1) = sub}
    IN  IF hits = {} THEN 0 ELSE CHOOSE i \in hits : \A j \in hits : i <= j

\* sub in s
Contains(s, sub) == Find(s, sub, 1) # 0

\* s.replace(old, new), old not empty: the occurrences are found left to right,
\* each search starting after the previous occurrence
RECURSIVE replace(_, _, _)
replace(s, old, new) ==
    LET i == Find(s, old, 1)
    IN  IF i = 0 THEN s
        ELSE SubSeq(s, 1, i - 1) \o new \o replace(Drop(s, i + Len(old) - 1), old, new)

\* a < b on str: by code point, a proper prefix being the smaller
RECURSIVE StrLess(_, _)
StrLess(a, b) ==
    IF b = <<>> THEN FALSE
    ELSE IF a = <<>> THEN TRUE
    ELSE IF Ord(Head(a)) # Ord(Head(b)) THEN Ord(Head(a)) < Ord(Head(b))
    ELSE StrLess(Tail(a), Tail(b))

------------------------------------------------------------------------------
\* clean_title

\* "AI - ", "AI | ", "(gungnae): ", "(gugeul) - ", "(zap)(VS16) (kwikmemo) - "
prefixes ==
    << <<"A", "I", " ", "-", " ">>,
       <<"A", "I", " ", "|", " ">>,
       <<"U+AD6D", "U+B0B4", ":", " ">>,
       <<"U+AD6C", "U+AE00", " ", "-", " ">>,
       <<"U+26A1", "U+FE0F", " ", "U+D035", "U+BA54", "U+BAA8", " ", "-", " ">> >>

\* the length under which the SEO suffix is appended
SeoMinLen == 15

\* " | AI (insaiteu)"
SeoSuffix == <<" ", "|", " ", "A", "I", " ", "U+C778", "U+C0AC", "U+C774", "U+D2B8">>

\* the dict of line 91, in insertion order:
\*   "(sueop yoyak noteu)" -> "(haeksim yoyak gaideu)",  "(sayonggi)" -> "(silje hwaryong tipgwa hugi)",
\*   "(jeongni)" -> "(orinwon gaideu)",  "(teurendeu)" -> "(choesin teurendeu bunseok)"
transformations ==
    << [key |-> <<"U+C218", "U+C5C5", " ", "U+C694", "U+C57D", " ", "U+B178", "U+D2B8">>, val |-> <<"U+D575", "U+C2EC", " ", "U+C694", "U+C57D", " ", "U+AC00", "U+C774", "U+B4DC">>],
       [key |-> <<"U+C0AC", "U+C6A9", "U+AE30">>, val |-> <<"U+C2E4", "U+C81C", " ", "U+D65C", "U+C6A9", " ", "U+D301", "U+ACFC", " ", "U+D6C4", "U+AE30">>],
       [key |-> <<"U+C815", "U+B9AC">>, val |-> <<"U+C62C", "U+C778", "U+C6D0", " ", "U+AC00", "U+C774", "U+B4DC">>],
       [key |-> <<"U+D2B8", "U+B80C", "U+B4DC">>, val |-> <<"U+CD5C", "U+C2E0", " ", "U+D2B8", "U+B80C", "U+B4DC", " ", "U+BD84", "U+C11D">>] >>

\* the loop of lines 82-85 from prefixes[i] on: the first prefix the title starts
\* with is cut off, and the break of line 85 ends the loop
RECURSIVE StripPrefix(_, _)
StripPrefix(cleaned, i) ==
    IF i > Len(prefixes) THEN cleaned
    ELSE IF StartsWith(cleaned, prefixes[i]) THEN Drop(cleaned, Len(prefixes[i]))
    ELSE StripPrefix(cleaned, i + 1)

\* that loop without its break
RECURSIVE StripPrefixNoBreak(_, _)
StripPrefixNoBreak(cleaned, i) ==
    IF i > Len(prefixes) THEN cleaned
    ELSE IF StartsWith(cleaned, prefixes[i])
         THEN StripPrefixNoBreak(Drop(cleaned, Len(prefixes[i])), i + 1)
    ELSE StripPrefixNoBreak(cleaned, i + 1)

\* lines 88-89
SeoSuffixed(cleaned) ==
    IF Len(cleaned) < SeoMinLen THEN cleaned \o SeoSuffix ELSE cleaned

\* the loop of lines 98-100 from transformations[i] on
RECURSIVE Transform(_, _)
Transform(cleaned, i) ==
    IF i > Len(transformations) THEN cleaned
    ELSE LET t == transformations[i]
         IN  Transform(IF Contains(cleaned, t.key) THEN replace(cleaned, t.key, t.val)
                       ELSE cleaned,
                       i + 1)

\* clean_title with the break of line 85 left out
clean_title_no_break(t) ==
    Transform(SeoSuffixed(StripPrefixNoBreak(t, 1)), 1)

\* clean_title with the comparison of line 88 turned round
clean_title_long_suffixed(t) ==
    LET cleaned == StripPrefix(t, 1)
    IN  Transform(IF Len(cleaned) > SeoMinLen THEN cleaned \o SeoSuffix ELSE cleaned, 1)

\* clean_title(title), title a str (title None raises at line 83)
clean_title(t) ==
    Transform(SeoSuffixed(StripPrefix(t, 1)), 1)

------------------------------------------------------------------------------
\* Configuration (lines 8-12)

BLOG_ID == <<"j", "o", "e", "c", "o", "o", "l", "0", "0">>

CATEGORY_FILTER == <<"A", "I", " ", "M", "i", "n", "d">>

\* the date the code special-cases, and the date it stands for (lines 107-108, 134)
LegacyPost == <<"L", "e", "g", "a", "c", "y", " ", "P", "o", "s", "t">>

LegacyDate == <<"2", "0", "2", "4", "-", "0", "1", "-", "0", "1">>

------------------------------------------------------------------------------
\* fetch_rss

\* no bytes at all: what fetch_rss returns (None) when the status is not 200
NoContent == [none |-> TRUE, empty |-> TRUE, wellFormed |-> FALSE, items |-> <<>>]

\* str(n) for n >= 0, at least width digits (the f-string of line 17; %Y, %m, %d)
RECURSIVE IntToStr(_, _)
IntToStr(n, width) ==
    LET digit == SubSeq(<<"0", "1", "2", "3", "4", "5", "6", "7", "8", "9">>, (n % 10) + 1, (n % 10) + 1)
    IN  IF n < 10 /\ width <= 1 THEN digit
        ELSE IntToStr(n \div 10, width - 1) \o digit

\* fetch_rss with every 2xx status taken as success
fetch_rss_any_2xx(response) ==
    IF response.status_code \div 100 # 2
    THEN [value |-> NoContent,
          out |-> <<[msg |-> "Failed to fetch RSS: ", arg |-> IntToStr(response.status_code, 1)]>>]
    ELSE [value |-> response.content, out |-> <<>>]

\* fetch_rss that prints the diagnostic and still returns the body
fetch_rss_returns_body(response) ==
    IF response.status_code # 200
    THEN [value |-> response.content,
          out |-> <<[msg |-> "Failed to fetch RSS: ", arg |-> IntToStr(response.status_code, 1)]>>]
    ELSE [value |-> response.content, out |-> <<>>]

\* fetch_rss(), given the response requests.get returned: what it returns and prints
fetch_rss(response) ==
    IF response.status_code # 200
    THEN [value |-> NoContent,
          out |-> <<[msg |-> "Failed to fetch RSS: ", arg |-> IntToStr(response.status_code, 1)]>>]
    ELSE [value |-> response.content, out |-> <<>>]

------------------------------------------------------------------------------
\* parse_rss

\* s.split(sep)[-1]
AfterLast(s, sep) ==
    LET at == {i \in 1..Len(s) : s[i] = sep}
    IN  IF at = {} THEN s ELSE Drop(s, CHOOSE i \in at : \A j \in at : j <= i)

\* s.split(sep)[0]
BeforeFirst(s, sep) ==
    LET at == {i \in 1..Len(s) : s[i] = sep}
    IN  IF at = {} THEN s ELSE SubSeq(s, 1, (CHOOSE i \in at : \A j \in at : i <= j) - 1)

IsDigits(s) == \A i \in 1..Len(s) : Ord(s[i]) \in 48..57

\* int(s), s digits
RECURSIVE ToInt(_)
ToInt(s) ==
    IF s = <<>> THEN 0 ELSE 10 * ToInt(SubSeq(s, 1, Len(s) - 1)) + (Ord(s[Len(s)]) - 48)

WeekdayNames == {<<"M", "o", "n">>, <<"T", "u", "e">>, <<"W", "e", "d">>, <<"T", "h", "u">>, <<"F", "r", "i">>, <<"S", "a", "t">>, <<"S", "u", "n">>}

MonthNames == <<<<"J", "a", "n">>, <<"F", "e", "b">>, <<"M", "a", "r">>, <<"A", "p", "r">>, <<"M", "a", "y">>, <<"J", "u", "n">>, <<"J", "u", "l">>, <<"A", "u", "g">>, <<"S", "e", "p">>, <<"O", "c", "t">>, <<"N", "o", "v">>, <<"D", "e", "c">>>>

DaysInMonth(year, month) ==
    IF month = 2
    THEN IF (year % 4 = 0 /\ year % 100 # 0) \/ year % 400 = 0 THEN 29 ELSE 28
    ELSE IF month \in {4, 6, 9, 11} THEN 30 ELSE 31

\* datetime.strptime(pub_date, "%a, %d %b %Y %H:%M:%S %z") on the fixed-width text
\* an RSS pubDate is ("Wed, 01 Jan 2025 10:00:00 +0900"): whether it parses, and
\* the date it holds. Any other text (and None, a TypeError) does not parse.
strptime(s) ==
    LET shaped ==
            /\ s # None
            /\ Len(s) = 31
            /\ SubSeq(s, 1, 3) \in WeekdayNames
            /\ SubSeq(s, 4, 5) = <<",", " ">>
            /\ IsDigits(SubSeq(s, 6, 7))
            /\ s[8] = " "
            /\ \E m \in 1..12 : MonthNames[m] = SubSeq(s, 9, 11)
            /\ s[12] = " "
            /\ IsDigits(SubSeq(s, 13, 16))
            /\ s[17] = " "
            /\ IsDigits(SubSeq(s, 18, 19)) /\ s[20] = ":"
            /\ IsDigits(SubSeq(s, 21, 22)) /\ s[23] = ":"
            /\ IsDigits(SubSeq(s, 24, 25))
            /\ s[26] = " "
            /\ s[27] \in {"+", "-"}
            /\ IsDigits(SubSeq(s, 28, 31))
        year == ToInt(SubSeq(s, 13, 16))
        month == CHOOSE m \in 1..12 : MonthNames[m] = SubSeq(s, 9, 11)
        day == ToInt(SubSeq(s, 6, 7))
    IN  IF /\ shaped
           /\ year >= 1
           /\ day \in 1..DaysInMonth(year, month)
           /\ ToInt(SubSeq(s, 18, 19)) < 24
           /\ ToInt(SubSeq(s, 21, 22)) < 60
           /\ ToInt(SubSeq(s, 24, 25)) < 62
           /\ ToInt(SubSeq(s, 30, 31)) < 60
        THEN [ok |-> TRUE, year |-> year, month |-> month, day |-> day]
        ELSE [ok |-> FALSE, year |-> 0, month |-> 0, day |-> 0]

\* date_obj.strftime("%Y-%m-%d")
strftime(d) ==
    IntToStr(d.year, 4) \o <<"-">> \o IntToStr(d.month, 2) \o <<"-">> \o IntToStr(d.day, 2)

\* the body of the loop of lines 25-49 for one <item>: whether it raises, and the
\* dict it appends. An element's text is a str, or None (<title/>); a field is
\* Missing when the element is not there, and .text of that raises.
ParseItem(item) ==
    LET category == IF item.category = Missing THEN <<>> ELSE item.category
        post_id == BeforeFirst(AfterLast(item.link, "/"), "?")
        parsed == strptime(item.pubDate)
    IN  IF Missing \in {item.title, item.link, item.pubDate} \/ item.link = None
        THEN [raised |-> TRUE, post |-> <<>>]
        ELSE [raised |-> FALSE,
              post |-> [id |-> post_id,
                        title |-> item.title,
                        link |-> <<"h", "t", "t", "p", "s", ":", "/", "/", "m", ".", "b", "l", "o", "g", ".", "n", "a", "v", "e", "r", ".", "c", "o", "m", "/">> \o BLOG_ID \o <<"/">> \o post_id,
                        category |-> category,
                        date |-> IF parsed.ok THEN strftime(parsed) ELSE item.pubDate]]

\* parse_rss(xml_content): ET.fromstring raises on bytes that are no XML document
parse_rss(xml_content) ==
    LET each == [i \in 1..Len(xml_content.items) |-> ParseItem(xml_content.items[i])]
    IN  IF ~xml_content.wellFormed \/ \E i \in 1..Len(each) : each[i].raised
        THEN [raised |-> TRUE, items |-> <<>>]
        ELSE [raised |-> FALSE, items |-> [i \in 1..Len(each) |-> each[i].post]]

------------------------------------------------------------------------------
\* update_data
\*
\* posts is the dict json.load returns: a sequence of entries in key order (a dict
\* keeps insertion order, and json.dump writes the keys in that order), each entry
\* its key, id, with the fields of its value.

HasKey(posts, id) == \E k \in 1..Len(posts) : posts[k].id = id

Entry(item) ==
    [id |-> item.id, title |-> item.title, link |-> item.link,
     date |-> item.date, category |-> item.category]

\* print's rendering of a value
Str(x) == IF x = None THEN <<"N", "o", "n", "e">> ELSE x

\* the loop of lines 60-70 from new_items[i] on; acc holds posts, updated and
\* the lines printed so far
RECURSIVE Merge(_, _, _)
Merge(new_items, i, acc) ==
    IF i > Len(new_items) THEN acc
    ELSE LET item == new_items[i]
         IN  IF item.category = CATEGORY_FILTER /\ ~HasKey(acc.posts, item.id)
             THEN Merge(new_items, i + 1,
                        [posts |-> Append(acc.posts, Entry(item)),
                         updated |-> TRUE,
                         out |-> Append(acc.out, [msg |-> "Added new post: ",
                                                  arg |-> Str(item.title)])])
             ELSE Merge(new_items, i + 1, acc)

\* that loop without the test of line 62: an id already in posts is assigned again
RECURSIVE MergeOverwriting(_, _, _)
MergeOverwriting(new_items, i, acc) ==
    IF i > Len(new_items) THEN acc
    ELSE LET item == new_items[i]
         IN  IF item.category = CATEGORY_FILTER
             THEN MergeOverwriting(new_items, i + 1,
                        [posts |-> IF HasKey(acc.posts, item.id)
                                   THEN [k \in 1..Len(acc.posts) |->
                                            IF acc.posts[k].id = item.id THEN Entry(item)
                                            ELSE acc.posts[k]]
                                   ELSE Append(acc.posts, Entry(item)),
                         updated |-> TRUE,
                         out |-> Append(acc.out, [msg |-> "Added new post: ",
                                                  arg |-> Str(item.title)])])
             ELSE MergeOverwriting(new_items, i + 1, acc)

\* that loop without the test of line 61: every category is stored
RECURSIVE MergeAnyCategory(_, _, _)
MergeAnyCategory(new_items, i, acc) ==
    IF i > Len(new_items) THEN acc
    ELSE LET item == new_items[i]
         IN  IF ~HasKey(acc.posts, item.id)
             THEN MergeAnyCategory(new_items, i + 1,
                        [posts |-> Append(acc.posts, Entry(item)),
                         updated |-> TRUE,
                         out |-> Append(acc.out, [msg |-> "Added new post: ",
                                                  arg |-> Str(item.title)])])
             ELSE MergeAnyCategory(new_items, i + 1, acc)

\* lines 53-57
LoadPosts(file) == IF file.exists THEN file.posts ELSE <<>>

\* update_data storing a post it already holds again
update_data_overwriting(file, new_items) ==
    LET m == MergeOverwriting(new_items, 1, [posts |-> LoadPosts(file), updated |-> FALSE, out |-> <<>>])
    IN  [posts |-> m.posts, updated |-> m.updated, out |-> m.out,
         file |-> IF m.updated THEN [exists |-> TRUE, posts |-> m.posts] ELSE file]

\* update_data storing the posts of every category
update_data_any_category(file, new_items) ==
    LET m == MergeAnyCategory(new_items, 1, [posts |-> LoadPosts(file), updated |-> FALSE, out |-> <<>>])
    IN  [posts |-> m.posts, updated |-> m.updated, out |-> m.out,
         file |-> IF m.updated THEN [exists |-> TRUE, posts |-> m.posts] ELSE file]

\* update_data writing the file whether or not a post was added
update_data_always_writing(file, new_items) ==
    LET m == Merge(new_items, 1, [posts |-> LoadPosts(file), updated |-> FALSE, out |-> <<>>])
    IN  [posts |-> m.posts, updated |-> TRUE, out |-> m.out,
         file |-> [exists |-> TRUE, posts |-> m.posts]]

\* update_data(new_items), given data/posts.json as it is: the dict returned,
\* whether the file was written (updated), the lines printed, the file afterwards
update_data(file, new_items) ==
    LET m == Merge(new_items, 1, [posts |-> LoadPosts(file), updated |-> FALSE, out |-> <<>>])
    IN  [posts |-> m.posts, updated |-> m.updated, out |-> m.out,
         file |-> IF m.updated THEN [exists |-> TRUE, posts |-> m.posts] ELSE file]

------------------------------------------------------------------------------
\* generate_html

\* sort_key(item) without the special case of lines 107-108
sort_key_raw(entry) == <<entry.date, entry.id>>

\* sort_key(item), item = (id, data)
sort_key(entry) ==
    <<IF entry.date = LegacyPost THEN LegacyDate ELSE entry.date, entry.id>>

\* k1 < k2 on the tuples sort_key returns, both dates str or both None
KeyLess(k1, k2) ==
    IF k1[1] # k2[1] THEN StrLess(k1[1], k2[1]) ELSE StrLess(k1[2], k2[2])

\* k1 < k2 raises TypeError: the dates differ and one of them is None
KeyRaises(k1, k2) == k1[1] # k2[1] /\ None \in {k1[1], k2[1]}

Reverse(s) == [i \in 1..Len(s) |-> s[Len(s) + 1 - i]]

\* a stable insertion of x into the ascending sequence s: after every element
\* that is not greater than x
Insert(s, x) ==
    LET n == Cardinality({i \in 1..Len(s) : ~KeyLess(sort_key(x), sort_key(s[i]))})
    IN  SubSeq(s, 1, n) \o <<x>> \o SubSeq(s, n + 1, Len(s))

RECURSIVE SortAscending(_)
SortAscending(s) ==
    IF s = <<>> THEN <<>> ELSE Insert(SortAscending(SubSeq(s, 1, Len(s) - 1)), s[Len(s)])

\* sorted(posts.items(), key=sort_key) ascending
sorted_ascending(posts) == SortAscending(posts)

\* sorted(posts.items(), key=sort_key, reverse=True): list.sort reverses the
\* list, sorts it ascending and stably, and reverses the result
sorted(posts) == Reverse(SortAscending(Reverse(posts)))

\* generate_html(posts): whether it raises before it opens index.html (the sort
\* compares a None date with a str date; clean_title(None) at line 118), and
\* the document it writes: its cards and the blogPost list of its JSON-LD block
generate_html(posts) ==
    LET sorted_posts == sorted(posts)
        n == Len(posts)
    IN  IF \/ \E i, j \in 1..n : KeyRaises(sort_key(posts[i]), sort_key(posts[j]))
           \/ \E i \in 1..n : posts[i].title = None
        THEN [raised |-> TRUE, file |-> [exists |-> FALSE, cards |-> <<>>, blogPost |-> <<>>]]
        ELSE [raised |-> FALSE,
              file |-> [exists |-> TRUE,
                        cards |-> [i \in 1..n |->
                            [date |-> Str(sorted_posts[i].date),
                             link |-> sorted_posts[i].link,
                             display_title |-> clean_title(sorted_posts[i].title)]],
                        blogPost |-> [i \in 1..n |->
                            [headline |-> sorted_posts[i].title,
                             url |-> sorted_posts[i].link,
                             datePublished |-> IF sorted_posts[i].date # LegacyPost
                                               THEN sorted_posts[i].date
                                               ELSE LegacyDate]]]]

------------------------------------------------------------------------------
\* generate_sitemap

\* generate_sitemap(posts), today being datetime.now().strftime('%Y-%m-%d')
generate_sitemap(posts, today) == [exists |-> TRUE, lastmod |-> today]

------------------------------------------------------------------------------
\* The feeds, responses and stored records the runs are checked on

\* the most <item> elements in a feed
MaxItems == 2

\* the most filler characters in a title given to clean_title
MaxFill == 6

\* the most entries in a record given to generate_html
MaxPosts == 3

\* "AI - (yoyak noteu)": the item of the example, published 1 January 2025
ItemA ==
    [title |-> <<"A", "I", " ", "-", " ", "U+C694", "U+C57D", " ", "U+B178", "U+D2B8">>,
     link |-> <<"h", "t", "t", "p", "s", ":", "/", "/", "b", "l", "o", "g", ".", "n", "a", "v", "e", "r", ".", "c", "o", "m", "/", "j", "o", "e", "c", "o", "o", "l", "0", "0", "/", "2", "2", "4", "1", "7", "9", "7", "3", "6", "8", "5", "2", "?", "f", "r", "o", "m", "R", "s", "s", "=", "t", "r", "u", "e">>,
     category |-> <<"A", "I", " ", "M", "i", "n", "d">>,
     pubDate |-> <<"W", "e", "d", ",", " ", "0", "1", " ", "J", "a", "n", " ", "2", "0", "2", "5", " ", "1", "0", ":", "0", "0", ":", "0", "0", " ", "+", "0", "9", "0", "0">>]

\* the same post after an edit upstream: another title ("AI | (teurendeu jeongni)"),
\* another query string, and a <pubDate/> with no text
ItemAEdited ==
    [title |-> <<"A", "I", " ", "|", " ", "U+D2B8", "U+B80C", "U+B4DC", " ", "U+C815", "U+B9AC">>,
     link |-> <<"h", "t", "t", "p", "s", ":", "/", "/", "b", "l", "o", "g", ".", "n", "a", "v", "e", "r", ".", "c", "o", "m", "/", "j", "o", "e", "c", "o", "o", "l", "0", "0", "/", "2", "2", "4", "1", "7", "9", "7", "3", "6", "8", "5", "2", "?", "f", "r", "o", "m", "R", "s", "s", "=", "t", "r", "u", "e", "&", "t", "r", "a", "c", "k", "i", "n", "g", "C", "o", "d", "e", "=", "r", "s", "s">>,
     category |-> <<"A", "I", " ", "M", "i", "n", "d">>,
     pubDate |-> None]

\* a post of another category, its pubDate not in the format of line 38
ItemOther ==
    [title |-> <<"U+AD6D", "U+B0B4", ":", " ", "U+C0AC", "U+C6A9", "U+AE30">>,
     link |-> <<"h", "t", "t", "p", "s", ":", "/", "/", "b", "l", "o", "g", ".", "n", "a", "v", "e", "r", ".", "c", "o", "m", "/", "j", "o", "e", "c", "o", "o", "l", "0", "0", "/", "2", "2", "4", "1", "7", "9", "7", "3", "6", "8", "5", "3">>,
     category |-> <<"O", "t", "h", "e", "r">>,
     pubDate |-> <<"2", "0", "2", "4", "-", "1", "2", "-", "3", "0", "T", "0", "8", ":", "1", "5", ":", "0", "0", "+", "0", "9", ":", "0", "0">>]

\* a post of the category whose <title/> has no text, under the id of ItemOther
ItemNoTitle ==
    [title |-> None,
     link |-> <<"h", "t", "t", "p", "s", ":", "/", "/", "b", "l", "o", "g", ".", "n", "a", "v", "e", "r", ".", "c", "o", "m", "/", "j", "o", "e", "c", "o", "o", "l", "0", "0", "/", "2", "2", "4", "1", "7", "9", "7", "3", "6", "8", "5", "3">>,
     category |-> <<"A", "I", " ", "M", "i", "n", "d">>,
     pubDate |-> <<"M", "o", "n", ",", " ", "3", "0", " ", "D", "e", "c", " ", "2", "0", "2", "4", " ", "0", "8", ":", "1", "5", ":", "0", "0", " ", "+", "0", "9", "0", "0">>]

Catalogue == {ItemA, ItemAEdited, ItemOther, ItemNoTitle}

\* a feed lists up to MaxItems items of the catalogue, none of them twice
Feeds ==
    {f \in UNION {[1..n -> Catalogue] : n \in 0..MaxItems} :
        \A i, j \in 1..Len(f) : f[i] = f[j] => i = j}

Rss(items) == [none |-> FALSE, empty |-> FALSE, wellFormed |-> TRUE, items |-> items]

\* a body of no bytes, and a body that is no XML document (an HTML error page)
EmptyBody == [none |-> FALSE, empty |-> TRUE, wellFormed |-> FALSE, items |-> <<>>]

NotXml == [none |-> FALSE, empty |-> FALSE, wellFormed |-> FALSE, items |-> <<>>]

\* what the feed URL may answer: 200 with any body; 203 (a 200-class status, of
\* a transforming proxy) with a feed; 404 with an error page
Responses ==
    {[status_code |-> 200, content |-> b] : b \in {EmptyBody, NotXml} \cup {Rss(f) : f \in Feeds}}
    \cup {[status_code |-> 203, content |-> Rss(<<ItemA>>)],
          [status_code |-> 404, content |-> NotXml]}

Days == {<<"2", "0", "2", "6", "-", "1", "1", "-", "0", "3">>, <<"2", "0", "2", "6", "-", "1", "1", "-", "0", "4">>}

\* entries of a data/posts.json kept from before the feed was synced: one dated
\* "Legacy Post", one dated 2024-01-01 whose id is shorter
SeedLegacy ==
    [id |-> <<"2", "2", "3", "0", "0", "0", "0", "0", "0", "0", "0", "5">>,
     title |-> <<"A", "I", " ", "U+C0AC", "U+C6A9", "U+AE30">>,
     link |-> <<"h", "t", "t", "p", "s", ":", "/", "/", "m", ".", "b", "l", "o", "g", ".", "n", "a", "v", "e", "r", ".", "c", "o", "m", "/", "j", "o", "e", "c", "o", "o", "l", "0", "0", "/", "2", "2", "3", "0", "0", "0", "0", "0", "0", "0", "0", "5">>,
     date |-> LegacyPost,
     category |-> <<"A", "I", " ", "M", "i", "n", "d">>]

SeedDated ==
    [id |-> <<"9", "0", "1", "2", "3", "4", "5", "6", "7", "8", "9">>,
     title |-> <<"U+AD6D", "U+B0B4", ":", " ", "U+C815", "U+B9AC">>,
     link |-> <<"h", "t", "t", "p", "s", ":", "/", "/", "m", ".", "b", "l", "o", "g", ".", "n", "a", "v", "e", "r", ".", "c", "o", "m", "/", "j", "o", "e", "c", "o", "o", "l", "0", "0", "/", "9", "0", "1", "2", "3", "4", "5", "6", "7", "8", "9">>,
     date |-> <<"2", "0", "2", "4", "-", "0", "1", "-", "0", "1">>,
     category |-> <<"A", "I", " ", "M", "i", "n", "d">>]

\* further entries a record may hold: one dated 2024-01-01 under an id smaller
\* than SeedLegacy's, one dated before 2024, and the entries update_data stores
\* for ItemA, ItemAEdited (date None) and ItemNoTitle (title None)
SeedDatedLow ==
    [id |-> <<"2", "2", "3", "0", "0", "0", "0", "0", "0", "0", "0", "1">>,
     title |-> <<"U+AD6C", "U+AE00", " ", "-", " ", "U+D2B8", "U+B80C", "U+B4DC">>,
     link |-> <<"h", "t", "t", "p", "s", ":", "/", "/", "m", ".", "b", "l", "o", "g", ".", "n", "a", "v", "e", "r", ".", "c", "o", "m", "/", "j", "o", "e", "c", "o", "o", "l", "0", "0", "/", "2", "2", "3", "0", "0", "0", "0", "0", "0", "0", "0", "1">>,
     date |-> <<"2", "0", "2", "4", "-", "0", "1", "-", "0", "1">>,
     category |-> <<"A", "I", " ", "M", "i", "n", "d">>]

SeedOld ==
    [id |-> <<"2", "2", "3", "3", "0", "9", "9", "9", "9", "9", "9", "9">>,
     title |-> <<"A", "I", " ", "U+C218", "U+C5C5", " ", "U+C694", "U+C57D", " ", "U+B178", "U+D2B8", " ", "U+C815", "U+B9AC">>,
     link |-> <<"h", "t", "t", "p", "s", ":", "/", "/", "m", ".", "b", "l", "o", "g", ".", "n", "a", "v", "e", "r", ".", "c", "o", "m", "/", "j", "o", "e", "c", "o", "o", "l", "0", "0", "/", "2", "2", "3", "3", "0", "9", "9", "9", "9", "9", "9", "9">>,
     date |-> <<"2", "0", "2", "3", "-", "1", "2", "-", "3", "1">>,
     category |-> <<"A", "I", " ", "M", "i", "n", "d">>]

EntryPool ==
    {SeedLegacy, SeedDated, SeedDatedLow, SeedOld,
     Entry(ParseItem(ItemA).post), Entry(ParseItem(ItemAEdited).post),
     Entry(ParseItem(ItemNoTitle).post)}

\* the records generate_html is given: up to MaxPosts entries of the pool, in
\* any key order, no id twice
Records ==
    {p \in UNION {[1..n -> EntryPool] : n \in 0..MaxPosts} :
        \A i, j \in 1..Len(p) : p[i].id = p[j].id => i = j}

NoFile == [exists |-> FALSE, posts |-> <<>>]

NoPage == [exists |-> FALSE, cards |-> <<>>, blogPost |-> <<>>]

NoSitemap == [exists |-> FALSE, lastmod |-> <<>>]

\* before any run
NoRun ==
    [status_code |-> 0, stage |-> "none", returned |-> FALSE, updated |-> FALSE,
     repeat |-> FALSE, stdout |-> <<>>]

Line(msg, arg) == [msg |-> msg, arg |-> arg]

\* the titles clean_title is checked on: up to two prefixes, then up to two of
\* the words the rules look for around a filler of 0..MaxFill characters
TitleWords ==
    {<<>>, <<"U+C694", "U+C57D", " ", "U+B178", "U+D2B8">>} \cup {transformations[i].key : i \in 1..Len(transformations)}

PrefixChoices == {<<>>} \cup {prefixes[i] : i \in 1..Len(prefixes)}

TitleInputs ==
    {p1 \o p2 \o w1 \o [i \in 1..n |-> "x"] \o w2 :
        p1 \in PrefixChoices, p2 \in PrefixChoices,
        w1 \in TitleWords, w2 \in TitleWords, n \in 0..MaxFill}

------------------------------------------------------------------------------
\* The sync runs

Init ==
    /\ dataFile \in {NoFile, [exists |-> TRUE, posts |-> <<SeedLegacy, SeedDated>>]}
    /\ htmlFile = NoPage
    /\ sitemapFile = NoSitemap
    /\ upstream \in Responses
    /\ seen = FALSE
    /\ pc = "idle"
    /\ run = NoRun
    /\ title = <<>>
    /\ display = None

\* the feed URL comes to answer with another response: a post is published or
\* edited, the server fails or recovers
Publish(response) ==
    /\ pc = "idle"
    /\ response # upstream
    /\ upstream' = response
    /\ seen' = FALSE
    /\ UNCHANGED <<dataFile, htmlFile, sitemapFile, pc, run, title, display>>

\* the script starts: line 199 prints, and requests.get (line 15) blocks
StartSync ==
    /\ pc = "idle"
    /\ pc' = "fetching"
    /\ UNCHANGED <<dataFile, htmlFile, sitemapFile, upstream, seen, run, title, display>>

\* requests.get returns what upstream answers, and the script runs to its end
\* (lines 15-19 and 200-206). An exception ends the run where it is raised:
\* what was written before stays written.
Main ==
    LET fetched == fetch_rss(upstream)
        xml_data == fetched.value
        parsed == parse_rss(xml_data)
        merged == update_data(dataFile, parsed.items)
        html == generate_html(merged.posts)
        started == <<Line("Starting sync...", <<>>)>> \o fetched.out
        result(stage, updated, out) ==
            [status_code |-> upstream.status_code, stage |-> stage,
             returned |-> ~xml_data.none, updated |-> updated,
             repeat |-> seen /\ run.stage = "done", stdout |-> started \o out]
    IN  /\ pc = "fetching"
        /\ pc' = "idle"
        /\ seen' = TRUE
        /\ UNCHANGED <<upstream, title, display>>
        /\ IF xml_data.none \/ xml_data.empty
           THEN /\ run' = result("fetch_rss", FALSE, <<>>)
                /\ UNCHANGED <<dataFile, htmlFile, sitemapFile>>
           ELSE IF parsed.raised
           THEN /\ run' = result("parse_rss", FALSE, <<>>)
                /\ UNCHANGED <<dataFile, htmlFile, sitemapFile>>
           ELSE IF html.raised
           THEN /\ run' = result("generate_html", merged.updated, merged.out)
                /\ dataFile' = merged.file
                /\ UNCHANGED <<htmlFile, sitemapFile>>
           ELSE /\ run' = result("done", merged.updated,
                                 merged.out \o <<Line("Sync completed successfully.", <<>>)>>)
                /\ dataFile' = merged.file
                /\ htmlFile' = html.file
                /\ \E today \in Days : sitemapFile' = generate_sitemap(merged.posts, today)

Next ==
    \/ \E response \in Responses : Publish(response)
    \/ StartSync
    \/ Main

Spec == Init /\ [][Next]_vars

\* generate_html on its own: one call on one record. run.stage tells how the
\* call ended: "rendered" when it wrote index.html, "generate_html" when it raised.

InitPage ==
    /\ dataFile \in {[exists |-> TRUE, posts |-> p] : p \in Records}
    /\ htmlFile = NoPage
    /\ sitemapFile = NoSitemap
    /\ upstream = [status_code |-> 404, content |-> NotXml]
    /\ seen = FALSE
    /\ pc = "idle"
    /\ run = NoRun
    /\ title = <<>>
    /\ display = None

GenerateHtml ==
    LET html == generate_html(LoadPosts(dataFile))
    IN  /\ run.stage = "none"
        /\ run' = [run EXCEPT !.stage = IF html.raised THEN "generate_html" ELSE "rendered"]
        /\ htmlFile' = IF html.raised THEN htmlFile ELSE html.file
        /\ UNCHANGED <<dataFile, sitemapFile, upstream, seen, pc, title, display>>

NextPage == GenerateHtml

SpecPage == InitPage /\ [][NextPage]_vars

\* clean_title on its own: one call on one title

InitTitle ==
    /\ dataFile = NoFile
    /\ htmlFile = NoPage
    /\ sitemapFile = NoSitemap
    /\ upstream = [status_code |-> 404, content |-> NotXml]
    /\ seen = FALSE
    /\ pc = "idle"
    /\ run = NoRun
    /\ title \in TitleInputs
    /\ display = None

CleanTitle ==
    /\ display = None
    /\ display' = clean_title(title)
    /\ UNCHANGED <<dataFile, htmlFile, sitemapFile, upstream, seen, pc, run, title>>

NextTitle == CleanTitle

SpecTitle == InitTitle /\ [][NextTitle]_vars

------------------------------------------------------------------------------
\* Properties

Keys(posts) == {posts[k].id : k \in 1..Len(posts)}

\* the items the run now fetching parses, when upstream answers with a feed
UpstreamItems == parse_rss(upstream.content).items

\* a run ends in this step
RunEnds == pc = "fetching" /\ pc' = "idle"

\* C1: a sync run keeps every entry of data/posts.json: each id that is a key
\* before the run is a key after it, once, with the same title, link, date and
\* category, whatever the feed of the run holds under that id.
C1_AppendOnly ==
    [][\A k \in 1..Len(LoadPosts(dataFile)) :
          /\ dataFile'.exists
          /\ Cardinality({j \in 1..Len(dataFile'.posts) :
                              dataFile'.posts[j].id = dataFile.posts[k].id}) = 1
          /\ \E j \in 1..Len(dataFile'.posts) : dataFile'.posts[j] = dataFile.posts[k]]_vars

\* a completed run added nothing, though its feed holds an item of the category
\* whose id is in the record under another title and another date
C1_Witness ==
    /\ seen /\ run.stage = "done" /\ ~run.updated
    /\ \E i \in 1..Len(UpstreamItems) : \E k \in 1..Len(LoadPosts(dataFile)) :
          /\ UpstreamItems[i].category = CATEGORY_FILTER
          /\ UpstreamItems[i].id = dataFile.posts[k].id
          /\ UpstreamItems[i].title # dataFile.posts[k].title
          /\ UpstreamItems[i].date # dataFile.posts[k].date

C2_Step ==
    LET items == UpstreamItems
        old == LoadPosts(dataFile)
        new == LoadPosts(dataFile')
        eligible == {i \in 1..Len(items) :
                        items[i].category = CATEGORY_FILTER /\ items[i].id \notin Keys(old)}
        newIds == {items[i].id : i \in eligible}
        first(id) == CHOOSE i \in eligible :
                        items[i].id = id /\ \A j \in eligible : items[j].id = id => i <= j
    IN  (RunEnds /\ run'.stage \in {"generate_html", "done"}) =>
            /\ Keys(new) = Keys(old) \cup newIds
            /\ Len(new) = Len(old) + Cardinality(newIds)
            /\ \A id \in newIds : \E k \in 1..Len(new) : new[k] = Entry(items[first(id)])
            /\ \A i \in 1..Len(items) :
                  (items[i].category # CATEGORY_FILTER /\ items[i].id \notin Keys(old) \cup newIds)
                      => items[i].id \notin Keys(new)

\* C2: update_data adds one entry per id among the items of the configured
\* category whose id is not in the record, with the fields of the first such item
\* in feed order, and adds nothing for an item of another category: the keys
\* afterwards are the keys before plus those ids.
C2_MergeAddsEligibleOnce == [][C2_Step]_vars

\* a run stored a post from a feed of two items of the category under one id
\* and different titles: the entry is the first item's
C2_Witness ==
    /\ seen /\ run.stage = "done" /\ run.updated
    /\ Len(UpstreamItems) = 2
    /\ UpstreamItems[1].id = UpstreamItems[2].id
    /\ UpstreamItems[1].title # UpstreamItems[2].title
    /\ UpstreamItems[1].category = CATEGORY_FILTER
    /\ UpstreamItems[2].category = CATEGORY_FILTER
    /\ \E k \in 1..Len(LoadPosts(dataFile)) : dataFile.posts[k] = Entry(UpstreamItems[1])

Added(stdout) == {i \in 1..Len(stdout) : stdout[i].msg = "Added new post: "}

C3_Step ==
    RunEnds =>
        /\ run'.updated <=> Len(LoadPosts(dataFile')) > Len(LoadPosts(dataFile))
        /\ ~run'.updated => dataFile' = dataFile
        /\ (seen /\ run.stage = "done") =>
              /\ dataFile' = dataFile
              /\ ~run'.updated
              /\ Added(run'.stdout) = {}

\* C3: a run that fetches the feed the completed run before it fetched inserts
\* nothing and leaves data/posts.json as it is, unwritten; a run writes the file
\* exactly when it inserted a post.
C3_RerunIsNoOp == [][C3_Step]_vars

\* a completed run repeated the fetch of a completed run, the feed holding a post
\* of the category
C3_Witness ==
    /\ run.repeat /\ run.stage = "done" /\ seen /\ dataFile.exists
    /\ \E i \in 1..Len(UpstreamItems) : UpstreamItems[i].category = CATEGORY_FILTER

Started == Line("Starting sync...", <<>>)

Failed(status_code) == Line("Failed to fetch RSS: ", IntToStr(status_code, 1))

\* C4 as claimed: every 200-class status is a success, the content returned and
\* the run going on past the fetch; every other status returns nothing.
C4_Every2xxSucceeds ==
    run.stage # "none" =>
        IF run.status_code \in 200..299
        THEN run.returned /\ Failed(run.status_code) \notin {run.stdout[i] : i \in 1..Len(run.stdout)}
        ELSE ~run.returned

\* C4 amended: the status 200 alone is a success, fetch_rss returning the body
\* (the run goes on when the body is not empty); every other status, the other
\* 200-class statuses with it, is a failure: the diagnostic, and no result.
C4_Only200Succeeds ==
    run.stage # "none" =>
        /\ run.returned <=> run.status_code = 200
        /\ run.returned => run.stdout[1] = Started /\ (Len(run.stdout) > 1 => run.stdout[2].msg # "Failed to fetch RSS: ")
        /\ ~run.returned => run.stage = "fetch_rss" /\ run.stdout = <<Started, Failed(run.status_code)>>

\* a run met a 200-class status other than 200 and got no result
C4_Witness ==
    /\ run.status_code \in 201..299
    /\ ~run.returned
    /\ run.stage = "fetch_rss"

C5_Step ==
    (RunEnds /\ upstream.status_code # 200) =>
        /\ dataFile' = dataFile
        /\ htmlFile' = htmlFile
        /\ sitemapFile' = sitemapFile
        /\ run'.stage = "fetch_rss"
        /\ run'.stdout = <<Started, Failed(upstream.status_code)>>

\* C5: a run whose fetch fails prints the diagnostic and ends: no parse, merge or
\* rendering, the three files as they were, no completion message.
C5_FetchFailureHalts == [][C5_Step]_vars

\* a run failed its fetch with the three files in place and a post of the
\* category, not yet in the record, in the body it was answered
C5_Witness ==
    /\ seen /\ ~run.returned /\ run.stage = "fetch_rss"
    /\ dataFile.exists /\ htmlFile.exists /\ sitemapFile.exists
    /\ \E i \in 1..Len(UpstreamItems) :
          /\ UpstreamItems[i].category = CATEGORY_FILTER
          /\ UpstreamItems[i].id \notin Keys(dataFile.posts)

\* the date an entry is ordered by
OrderDate(e) == IF e.date = LegacyPost THEN <<"2", "0", "2", "4", "-", "0", "1", "-", "0", "1">> ELSE e.date

\* entry a comes before entry b on the page: later date first, then greater id
Before(a, b) ==
    IF OrderDate(a) # OrderDate(b) THEN StrLess(OrderDate(b), OrderDate(a))
    ELSE StrLess(b.id, a.id)

\* the entry of posts a card or JSON-LD entry is of, by its link
EntryAt(posts, link) == posts[CHOOSE k \in 1..Len(posts) : posts[k].link = link]

\* generate_html returned: index.html is the page of the record as it is
Rendered == run.stage \in {"done", "rendered"}

\* C6: the page generate_html writes holds one card per entry of the record, and
\* the cards are in order of date descending, "Legacy Post" counting as
\* 2024-01-01, entries of one date in order of id descending as strings.
C6_PageListsAllSorted ==
    Rendered =>
        LET posts == LoadPosts(dataFile)
            cards == htmlFile.cards
        IN  /\ htmlFile.exists
            /\ Len(cards) = Len(posts)
            /\ \A k \in 1..Len(posts) :
                  Cardinality({i \in 1..Len(cards) :
                      cards[i].link = posts[k].link /\ cards[i].date = Str(posts[k].date)}) = 1
            /\ \A i, j \in 1..Len(cards) :
                  i < j => Before(EntryAt(posts, cards[i].link), EntryAt(posts, cards[j].link))

\* a page of three cards, out of the record's own order: an entry dated
\* 2024-01-01, the "Legacy Post" entry and an older entry, the first two ordered
\* by their ids, the shorter id being the greater string
C6_Witness ==
    /\ Rendered
    /\ Len(htmlFile.cards) = 3
    /\ htmlFile.cards[1].date = <<"2", "0", "2", "4", "-", "0", "1", "-", "0", "1">>
    /\ htmlFile.cards[2].date = LegacyPost
    /\ htmlFile.cards[3].date = <<"2", "0", "2", "3", "-", "1", "2", "-", "3", "1">>
    /\ Len(EntryAt(dataFile.posts, htmlFile.cards[1].link).id)
          < Len(EntryAt(dataFile.posts, htmlFile.cards[2].link).id)
    /\ dataFile.posts[1].link = htmlFile.cards[3].link

\* generate_html returns in this step
Renders == run'.stage \in {"done", "rendered"} /\ (pc = "fetching" \/ run.stage = "none")

C7_Step ==
    Renders =>
        \A k \in 1..Len(LoadPosts(dataFile)) :
            dataFile.posts[k].date = LegacyPost =>
                LET cards == htmlFile'.cards
                    blogPost == htmlFile'.blogPost
                    e == dataFile.posts[k]
                IN  /\ dataFile'.posts[k] = e
                    /\ \E i \in 1..Len(cards) :
                          /\ cards[i].link = e.link
                          /\ blogPost[i].url = e.link
                          /\ blogPost[i].datePublished = <<"2", "0", "2", "4", "-", "0", "1", "-", "0", "1">>
                          /\ \A j \in 1..Len(cards) :
                                LET o == EntryAt(dataFile'.posts, cards[j].link)
                                    d == IF o.date = LegacyPost THEN <<"2", "0", "2", "4", "-", "0", "1", "-", "0", "1">> ELSE o.date
                                IN  /\ j < i => \/ StrLess(<<"2", "0", "2", "4", "-", "0", "1", "-", "0", "1">>, d)
                                                \/ d = <<"2", "0", "2", "4", "-", "0", "1", "-", "0", "1">> /\ StrLess(e.id, o.id)
                                    /\ j > i => \/ StrLess(d, <<"2", "0", "2", "4", "-", "0", "1", "-", "0", "1">>)
                                                \/ d = <<"2", "0", "2", "4", "-", "0", "1", "-", "0", "1">> /\ StrLess(o.id, e.id)

\* C7: an entry dated "Legacy Post" is placed on the page as an entry dated
\* 2024-01-01 and its JSON-LD entry has datePublished 2024-01-01, while its date in
\* the record, returned and stored, is still "Legacy Post" after the rendering.
C7_LegacyPostRendersAs2024 == [][C7_Step]_vars

\* a page where the "Legacy Post" card stands between two cards dated
\* 2024-01-01, its entry still dated "Legacy Post" in the record
C7_Witness ==
    /\ Rendered
    /\ \E i \in 2..Len(htmlFile.cards) - 1 :
          /\ htmlFile.cards[i - 1].date = <<"2", "0", "2", "4", "-", "0", "1", "-", "0", "1">>
          /\ htmlFile.cards[i].date = LegacyPost
          /\ htmlFile.cards[i + 1].date = <<"2", "0", "2", "4", "-", "0", "1", "-", "0", "1">>
          /\ htmlFile.blogPost[i].datePublished = <<"2", "0", "2", "4", "-", "0", "1", "-", "0", "1">>
          /\ EntryAt(dataFile.posts, htmlFile.cards[i].link).date = LegacyPost

\* C8 as claimed: every field of every entry of data/posts.json is a string, a
\* <title/> or <pubDate/> without text never being stored as null.
C8_StoredFieldsAreStrings ==
    \A k \in 1..Len(LoadPosts(dataFile)) :
        None \notin {dataFile.posts[k].title, dataFile.posts[k].link,
                     dataFile.posts[k].date, dataFile.posts[k].category}

\* "AI - (yoyak noteu)", the title of the example
ExampleTitle == <<"A", "I", " ", "-", " ", "U+C694", "U+C57D", " ", "U+B178", "U+D2B8">>

\* C9 as claimed: the example's title is displayed as "(yoyak noteu)", the title
\* less its prefix.
C9_ExampleOnlyLosesPrefix ==
    (title = ExampleTitle /\ display # None) => display = <<"U+C694", "U+C57D", " ", "U+B178", "U+D2B8">>

\* C9 amended: the example's title is displayed as "(yoyak noteu) | AI (insaiteu)":
\* the prefix "AI - " is removed, and the five characters left being fewer than
\* 15 the fixed suffix is appended; no replacement rule applies.
C9_ExampleLosesPrefixGainsSuffix ==
    (title = ExampleTitle /\ display # None) => display = <<"U+C694", "U+C57D", " ", "U+B178", "U+D2B8", " ", "|", " ", "A", "I", " ", "U+C778", "U+C0AC", "U+C774", "U+D2B8">>

C9_Witness == title = ExampleTitle /\ display # None

\* the length of the first entry of prefixes the title starts with, or 0
FirstPrefixLen(t) ==
    LET m == {i \in 1..Len(prefixes) : StartsWith(t, prefixes[i])}
    IN  IF m = {} THEN 0 ELSE Len(prefixes[CHOOSE i \in m : \A j \in m : i <= j])

\* the pieces of s between the occurrences of sep, taken left to right
RECURSIVE SplitOn(_, _)
SplitOn(s, sep) ==
    LET i == Find(s, sep, 1)
    IN  IF i = 0 THEN <<s>>
        ELSE <<SubSeq(s, 1, i - 1)>> \o SplitOn(Drop(s, i + Len(sep) - 1), sep)

RECURSIVE Join(_, _)
Join(pieces, glue) ==
    IF Len(pieces) = 1 THEN pieces[1] ELSE pieces[1] \o glue \o Join(Tail(pieces), glue)

\* every occurrence of the rule's substring replaced
Rule(s, n) == Join(SplitOn(s, transformations[n].key), transformations[n].val)

\* C10: clean_title removes the first entry of the prefix list the title starts
\* with and no prefix that removal uncovers; then appends the suffix exactly when
\* what is left has fewer than 15 characters, whatever the replacements make of
\* it; then applies the four replacement rules in table order, each to every
\* occurrence.
C10_CleanTitleSteps ==
    display # None =>
        LET stripped == Drop(title, FirstPrefixLen(title))
            suffixed == IF Len(stripped) < 15 THEN stripped \o SeoSuffix ELSE stripped
        IN  display = Rule(Rule(Rule(Rule(suffixed, 1), 2), 3), 4)

\* "AI - AI | (jeongni)(teurendeu)": the second prefix stays, the ten characters
\* left get the suffix though the result is longer than 15, and two rules apply
C10_Witness ==
    /\ title = <<"A", "I", " ", "-", " ", "A", "I", " ", "|", " ", "U+C815", "U+B9AC", "U+D2B8", "U+B80C", "U+B4DC">>
    /\ display = <<"A", "I", " ", "|", " ", "U+C62C", "U+C778", "U+C6D0", " ", "U+AC00", "U+C774", "U+B4DC", "U+CD5C", "U+C2E0", " ", "U+D2B8", "U+B80C", "U+B4DC", " ", "U+BD84", "U+C11D", " ", "|", " ", "A", "I", " ", "U+C778", "U+C0AC", "U+C774", "U+D2B8">>

==============================================================================
